---- MODULE Spec2Model ----
(***************************************************************************)
(* A model of app.py: the one-time startup of the module (credential, LLM  *)
(* client, dataset load with column normalization, configuration loading   *)
(* and validation, crew assembly) and the two Flask routes, with the       *)
(* POST /process handler followed through the sequential three-task crew.  *)
(***************************************************************************)
EXTENDS Naturals, Sequences, FiniteSets, TLC

VARIABLES
    env_key,      \* os.getenv("GROQ_API_KEY") after load_dotenv()
    csv_file,     \* "./Financial Statements.csv" on disk
    config_file,  \* "config.yaml" on disk
    pc,           \* position of the module's top-level code
    exit_reason,  \* why the process ended before serving (None while it has not)
    llm,          \* the module-level LLM client
    columns,      \* df.columns
    db,           \* the finance table of finance.db
    crew_config,  \* create_crew's local crew_config
    agents,       \* create_crew's local agents dict (insertion ordered)
    crew,         \* the module-level crew
    crew_builds,  \* how many Crew objects have been constructed
    req           \* per request thread: the request it is serving

vars == <<env_key, csv_file, config_file, pc, exit_reason, llm, columns, db,
          crew_config, agents, crew, crew_builds, req>>

environment == <<env_key, csv_file, config_file>>
startup == <<pc, exit_reason, llm, columns, db, crew_config, agents, crew, crew_builds>>

----------------------------------------------------------------------------
(* Bounds of the model *)

MaxLen == 3        \* characters in a CSV header label
MaxTools == 2      \* tool names an agent entry declares
MaxAgents == 3     \* agent entries of config.yaml
NumThreads == 2    \* request threads of the server

----------------------------------------------------------------------------
(* Values: Python None, YAML / form values tagged by their kind *)

None == [kind |-> "none"]
Absent == [kind |-> "absent"]            \* the key is not there
Null == [kind |-> "null"]                \* the key is there, its value is null
Str(s) == [kind |-> "str", val |-> s]
Bool(b) == [kind |-> "bool", val |-> b]
List(xs) == [kind |-> "list", val |-> xs]

\* Python truthiness of an optional string: None and "" are falsy
Falsy(v) == v.kind \in {"none", "absent", "null"} \/ (v.kind = "str" /\ v.val = "")

\* all sequences over S of length lo..hi
SeqsBetween(S, lo, hi) == UNION {[1..n -> S] : n \in lo..hi}

Min(S) == CHOOSE m \in S : \A n \in S : m <= n

----------------------------------------------------------------------------
(* Database Setup: column normalization, strings as sequences of characters *)

\* characters str.strip() removes (space and tab stand for Python's whitespace)
Whitespace == {" ", "\t"}

RECURSIVE lstrip(_)
lstrip(s) == IF s # <<>> /\ Head(s) \in Whitespace THEN lstrip(Tail(s)) ELSE s

RECURSIVE rstrip(_)
rstrip(s) ==
    IF s # <<>> /\ s[Len(s)] \in Whitespace THEN rstrip(SubSeq(s, 1, Len(s) - 1)) ELSE s

str_strip(s) == rstrip(lstrip(s))

\* str.replace(old, new) for a one-character old and a literal new
RECURSIVE str_replace(_, _, _)
str_replace(s, old, new) ==
    IF s = <<>> THEN <<>>
    ELSE (IF Head(s) = old THEN new ELSE <<Head(s)>>) \o str_replace(Tail(s), old, new)

NormalizeColumn_NoSlash(label) ==
    str_replace(str_replace(str_replace(str_strip(label), " ", <<"_">>), "(", <<>>), ")", <<>>)

NormalizeColumn(label) ==
    str_replace(
        str_replace(
            str_replace(
                str_replace(str_strip(label), " ", <<"_">>),
                "(", <<>>),
            ")", <<>>),
        "/", <<"_">>)

\* pd.read_csv names a column with an empty header "Unnamed: <position>"
ReadCsvLabel(h, i) ==
    IF h = <<>>
    THEN <<"U", "n", "n", "a", "m", "e", "d", ":", " ">> \o <<(<<"0", "1", "2", "3">>)[i]>>
    ELSE h

read_csv(file) == [i \in 1..Len(file.header) |-> ReadCsvLabel(file.header[i], i)]

----------------------------------------------------------------------------
(* Pydantic schemas and load_config *)

RequiredText == {"name", "role", "goal", "backstory"}

\* textwrap.dedent on a text held as lines [indent, text]: the common margin of
\* the non-blank lines is removed, blank lines lose all their whitespace
dedent(text) ==
    LET nonblank == {i \in 1..Len(text) : text[i].text # ""}
        margin == IF nonblank = {} THEN 0 ELSE Min({text[i].indent : i \in nonblank})
    IN [i \in 1..Len(text) |->
            IF text[i].text = "" THEN [indent |-> 0, text |-> ""]
            ELSE [indent |-> text[i].indent - margin, text |-> text[i].text]]

\* the four str fields, the empty string for a str of no characters
IsEmptyText(f, v) == IF f = "backstory" THEN v.val = <<[indent |-> 0, text |-> ""]>> ELSE v.val = ""

ValidAgent_NonEmpty(e) ==
    /\ \A f \in RequiredText : e[f].kind = "str" /\ ~IsEmptyText(f, e[f])
    /\ e.tools.kind \in {"absent", "list"}
    /\ e.allow_delegation.kind \in {"absent", "bool"}
    /\ e.verbose.kind \in {"absent", "bool"}

\* AgentConfig(**entry) validates: the four str fields are required, the others
\* have defaults
ValidAgent(e) ==
    /\ \A f \in RequiredText : e[f].kind = "str"
    /\ e.tools.kind \in {"absent", "list"}
    /\ e.allow_delegation.kind \in {"absent", "bool"}
    /\ e.verbose.kind \in {"absent", "bool"}

AgentConfig(e) ==
    [name |-> e.name.val,
     role |-> e.role.val,
     goal |-> e.goal.val,
     backstory |-> e.backstory.val,
     tools |-> IF e.tools.kind = "absent" THEN <<>> ELSE e.tools.val,
     allow_delegation |-> IF e.allow_delegation.kind = "absent" THEN FALSE
                          ELSE e.allow_delegation.val,
     verbose |-> IF e.verbose.kind = "absent" THEN TRUE ELSE e.verbose.val]

\* CrewConfig(**config_data): config_data is a mapping with a list of valid agents
ValidCrew(file) ==
    /\ file.kind = "mapping"
    /\ file.agents.kind = "list"
    /\ \A i \in 1..Len(file.agents.val) : ValidAgent(file.agents.val[i])

CrewConfig(file) ==
    [agents |-> [i \in 1..Len(file.agents.val) |-> AgentConfig(file.agents.val[i])]]

load_config_SkipInvalid(file) ==
    IF file.kind = "absent" THEN [ok |-> FALSE, error |-> "exit: config not found"]
    ELSE IF file.kind = "mapping" /\ file.agents.kind = "list"
    THEN [ok |-> TRUE,
          config |-> [agents |->
              LET valid == SelectSeq(file.agents.val, ValidAgent)
              IN [i \in 1..Len(valid) |-> AgentConfig(valid[i])]]]
    ELSE [ok |-> FALSE, error |-> "exit: config invalid"]

load_config(file) ==
    IF file.kind = "absent" THEN [ok |-> FALSE, error |-> "exit: config not found"]
    ELSE IF ValidCrew(file) THEN [ok |-> TRUE, config |-> CrewConfig(file)]
    ELSE [ok |-> FALSE, error |-> "exit: config invalid"]

----------------------------------------------------------------------------
(* Tools, tool_mapping and create_crew *)

Tool(name, delegate, sleep) == [name |-> name, delegate |-> delegate, sleep |-> sleep]

tool_mapping ==
    [n \in {"list_tables", "tables_schema", "execute_sql", "check_sql"} |->
        CASE n = "list_tables" -> Tool(n, "ListSQLDatabaseTool", 0)
          [] n = "tables_schema" -> Tool(n, "InfoSQLDatabaseTool", 0)
          [] n = "execute_sql" -> Tool(n, "QuerySQLDataBaseTool", 2)
          [] n = "check_sql" -> Tool(n, "QuerySQLCheckerTool", 2)]

\* the agents dict: a sequence of [key, value] in insertion order; assigning to a
\* key that is there replaces its value in place
DictHas(d, k) == \E i \in 1..Len(d) : d[i].key = k

DictGet(d, k) == d[CHOOSE i \in 1..Len(d) : d[i].key = k].value

DictSet(d, k, v) ==
    IF DictHas(d, k)
    THEN [i \in 1..Len(d) |-> IF d[i].key = k THEN [key |-> k, value |-> v] ELSE d[i]]
    ELSE Append(d, [key |-> k, value |-> v])

DictValues(d) == [i \in 1..Len(d) |-> d[i].value]

RECURSIVE agent_tools_StopAtUnknown(_)
agent_tools_StopAtUnknown(names) ==
    IF names = <<>> \/ Head(names) \notin DOMAIN tool_mapping THEN <<>>
    ELSE <<tool_mapping[Head(names)]>> \o agent_tools_StopAtUnknown(Tail(names))

\* [tool_mapping[tool_name] for tool_name in agent_conf.tools if tool_name in tool_mapping]
RECURSIVE agent_tools(_)
agent_tools(names) ==
    IF names = <<>> THEN <<>>
    ELSE (IF Head(names) \in DOMAIN tool_mapping THEN <<tool_mapping[Head(names)]>> ELSE <<>>)
         \o agent_tools(Tail(names))

Agent(agent_conf, client) ==
    [role |-> agent_conf.role,
     goal |-> agent_conf.goal,
     backstory |-> dedent(agent_conf.backstory),
     llm |-> client,
     tools |-> agent_tools(agent_conf.tools),
     allow_delegation |-> agent_conf.allow_delegation,
     verbose |-> TRUE]

\* for agent_conf in crew_config.agents: agents[agent_conf.name] = Agent(...)
RECURSIVE BuildAgents(_, _, _)
BuildAgents(confs, client, acc) ==
    IF confs = <<>> THEN acc
    ELSE BuildAgents(Tail(confs), client,
                     DictSet(acc, Head(confs).name, Agent(Head(confs), client)))

\* a task description is a template: a sequence of literal pieces and placeholders
Placeholder == "{query}"

ExtractDescription == <<"Extract the data required to answer the question: ", Placeholder, ".">>

AnalyzeDescription ==
    <<"Analyze the data provided and write a brief analysis for the question: ",
      Placeholder, ".">>

\* the literal has one line and no margin, so dedent leaves it as it is
ReportDescription ==
    <<"Write an executive summary of the report from the analysis. The report must be less than 50 words and presented in markdown.">>

Task(name, description, expected_output, agent, context) ==
    [name |-> name, description |-> description, expected_output |-> expected_output,
     agent |-> agent, context |-> context]

TaskAgents == <<"sql_dev", "data_analyst", "report_writer">>

Crew_AnalyzeFirst(agent_list, extract_data, analyze_data, write_report) ==
    [agents |-> agent_list,
     tasks |-> <<analyze_data, extract_data, write_report>>,
     process |-> "sequential",
     verbose |-> TRUE]

Crew(agent_list, extract_data, analyze_data, write_report) ==
    [agents |-> agent_list,
     tasks |-> <<extract_data, analyze_data, write_report>>,
     process |-> "sequential",
     verbose |-> TRUE]

FirstMissing(ags) ==
    TaskAgents[Min({i \in 1..Len(TaskAgents) : ~DictHas(ags, TaskAgents[i])})]

AgentOrNone(ags, k) == IF DictHas(ags, k) THEN DictGet(ags, k) ELSE None

AssembleCrew_Get(ags) ==
    [ok |-> TRUE,
     crew |-> Crew(DictValues(ags),
                   Task("extract_data", ExtractDescription,
                        "A list of data from the database that answers the question.",
                        AgentOrNone(ags, "sql_dev"), <<>>),
                   Task("analyze_data", AnalyzeDescription,
                        "A short, easy-to-understand text analyzing the provided data.",
                        AgentOrNone(ags, "data_analyst"), <<"extract_data">>),
                   Task("write_report", ReportDescription,
                        "A markdown report summarizing the analysis.",
                        AgentOrNone(ags, "report_writer"), <<"analyze_data">>))]

\* create_crew from "# Create Tasks" on: agents[...] raises KeyError at the first
\* of the three names the dict lacks
AssembleCrew(ags) ==
    IF \E i \in 1..Len(TaskAgents) : ~DictHas(ags, TaskAgents[i])
    THEN [ok |-> FALSE, error |-> "KeyError", key |-> FirstMissing(ags)]
    ELSE [ok |-> TRUE,
          crew |-> Crew(DictValues(ags),
                        Task("extract_data", ExtractDescription,
                             "A list of data from the database that answers the question.",
                             DictGet(ags, "sql_dev"), <<>>),
                        Task("analyze_data", AnalyzeDescription,
                             "A short, easy-to-understand text analyzing the provided data.",
                             DictGet(ags, "data_analyst"), <<"extract_data">>),
                        Task("write_report", ReportDescription,
                             "A markdown report summarizing the analysis.",
                             DictGet(ags, "report_writer"), <<"analyze_data">>))]

----------------------------------------------------------------------------
(* The module's top-level code, in order *)

Exit(reason) ==
    /\ pc' = "terminated"
    /\ exit_reason' = reason

\* load_dotenv(); groq_api_key = os.getenv(...); if not groq_api_key: raise ValueError
LoadEnv ==
    /\ pc = "env"
    /\ IF Falsy(env_key)
       THEN Exit([error |-> "ValueError"])
       ELSE pc' = "llm" /\ UNCHANGED exit_reason
    /\ UNCHANGED <<environment, llm, columns, db, crew_config, agents, crew, crew_builds, req>>

InitLLM ==
    /\ pc = "llm"
    /\ llm' = [model |-> "groq/llama-3.3-70b-versatile", api_key |-> env_key.val]
    /\ pc' = "db"
    /\ UNCHANGED <<environment, exit_reason, columns, db, crew_config, agents, crew,
                   crew_builds, req>>

\* the try block of "Database Setup"
DatabaseSetup ==
    /\ pc = "db"
    /\ IF csv_file.kind = "absent"
       THEN Exit([error |-> "exit: csv not found"]) /\ UNCHANGED <<columns, db>>
       ELSE IF csv_file.kind = "unreadable"
       THEN Exit([error |-> "exit: database setup failed"]) /\ UNCHANGED <<columns, db>>
       ELSE /\ columns' = [i \in 1..Len(csv_file.header) |->
                               NormalizeColumn(read_csv(csv_file)[i])]
            /\ db' = [table |-> "finance", columns |-> columns']
            /\ pc' = "config"
            /\ UNCHANGED exit_reason
    /\ UNCHANGED <<environment, llm, crew_config, agents, crew, crew_builds, req>>

\* crew = create_crew(): crew_config = load_config()
LoadConfig ==
    /\ pc = "config"
    /\ LET r == load_config(config_file)
       IN IF r.ok
          THEN crew_config' = r.config /\ pc' = "agents" /\ UNCHANGED exit_reason
          ELSE Exit([error |-> r.error]) /\ UNCHANGED crew_config
    /\ UNCHANGED <<environment, llm, columns, db, agents, crew, crew_builds, req>>

\* create_crew: the "# Create Agents" loop
CreateAgents ==
    /\ pc = "agents"
    /\ agents' = BuildAgents(crew_config.agents, llm, <<>>)
    /\ pc' = "tasks"
    /\ UNCHANGED <<environment, exit_reason, llm, columns, db, crew_config, crew,
                   crew_builds, req>>

\* create_crew: "# Create Tasks", "# Assemble Crew", and the assignment to crew
CreateTasks ==
    /\ pc = "tasks"
    /\ LET r == AssembleCrew(agents)
       IN IF r.ok
          THEN /\ crew' = [id |-> crew_builds + 1] @@ r.crew
               /\ crew_builds' = crew_builds + 1
               /\ pc' = "run"
               /\ UNCHANGED exit_reason
          ELSE /\ Exit([error |-> r.error, key |-> r.key])
               /\ UNCHANGED <<crew, crew_builds>>
    /\ UNCHANGED <<environment, llm, columns, db, crew_config, agents, req>>

\* app.run(): the server binds and the routes serve
AppRun ==
    /\ pc = "run"
    /\ pc' = "serving"
    /\ UNCHANGED <<environment, exit_reason, llm, columns, db, crew_config, agents, crew,
                   crew_builds, req>>

----------------------------------------------------------------------------
(* The routes. A request thread serves one request at a time. *)

Threads == 1..NumThreads

Idle ==
    [state |-> "idle", route |-> "", form |-> [query |-> Absent], query |-> None,
     inputs |-> None, invoked |-> FALSE, pipeline |-> 0, task |-> 0, outputs |-> <<>>,
     descriptions |-> <<>>, status |-> 0, body |-> None, history |-> <<>>]

\* the forms a client posts: no query field, an empty one, a question
Forms == {[query |-> Absent], [query |-> Str("")], [query |-> Str("total revenue?")]}

\* request.form.get('query'): None when the field is not there
form_get(form, field) == IF form[field].kind = "absent" THEN None ELSE form[field]

\* the per-request state a task of the pipeline is run in
RunningState(task_name) ==
    CASE task_name = "extract_data" -> "extract-running"
      [] task_name = "analyze_data" -> "analyze-running"
      [] task_name = "write_report" -> "summarize-running"

Move(r, state) == [r EXCEPT !.state = state, !.history = Append(@, state)]

\* kickoff(inputs=...): every placeholder of a description is replaced by the input
Interpolate_Identity(description, inputs) == description

Interpolate(description, inputs) ==
    [i \in 1..Len(description) |->
        IF description[i] = Placeholder THEN inputs.query ELSE description[i]]

\* @app.route('/') index(): render_template('index.html')
Index(t) ==
    /\ pc = "serving"
    /\ req[t].state = "idle"
    /\ req' = [req EXCEPT ![t] =
                  [Move(Idle, "index-rendered") EXCEPT
                      !.route = "/", !.status = 200,
                      !.body = [template |-> "index.html"]]]
    /\ UNCHANGED <<environment, startup>>

\* a POST /process arrives with its form
Receive(t, form) ==
    /\ pc = "serving"
    /\ req[t].state = "idle"
    /\ req' = [req EXCEPT ![t] =
                  [Move(Idle, "received") EXCEPT !.route = "/process", !.form = form]]
    /\ UNCHANGED <<environment, startup>>

ReadQuery_OnlyEmpty(t) ==
    /\ req[t].state = "received"
    /\ LET query == form_get(req[t].form, "query")
       IN req' = [req EXCEPT ![t] =
              IF query.kind = "str" /\ query.val = ""
              THEN [Move(@, "client-error") EXCEPT
                       !.query = query, !.status = 400,
                       !.body = [text |-> "Please provide a query."]]
              ELSE [Move(@, "bound-to-pipeline") EXCEPT
                       !.query = query,
                       !.inputs = [query |-> IF query.kind = "str" THEN query.val ELSE "None"]]]
    /\ UNCHANGED <<environment, startup>>

\* process(): query = request.form.get('query'); if not query: return ..., 400;
\* inputs = {"query": query}
ReadQuery(t) ==
    /\ req[t].state = "received"
    /\ LET query == form_get(req[t].form, "query")
       IN req' = [req EXCEPT ![t] =
              IF Falsy(query)
              THEN [Move(@, "client-error") EXCEPT
                       !.query = query, !.status = 400,
                       !.body = [text |-> "Please provide a query."]]
              ELSE [Move(@, "bound-to-pipeline") EXCEPT
                       !.query = query, !.inputs = [query |-> query.val]]]
    /\ UNCHANGED <<environment, startup>>

Kickoff_Rebuild(t) ==
    /\ req[t].state = "bound-to-pipeline"
    /\ crew' = [crew EXCEPT !.id = crew_builds + 1]
    /\ crew_builds' = crew_builds + 1
    /\ req' = [req EXCEPT ![t] =
                  [Move(@, RunningState(crew.tasks[1].name)) EXCEPT
                      !.invoked = TRUE, !.pipeline = crew'.id, !.task = 1,
                      !.descriptions = [i \in 1..Len(crew.tasks) |->
                          Interpolate(crew.tasks[i].description, req[t].inputs)]]]
    /\ UNCHANGED <<environment, pc, exit_reason, llm, columns, db, crew_config, agents>>

\* process(): crew.kickoff(inputs=inputs) is entered: the inputs are bound to the
\* tasks of the module-level crew and its first task starts
Kickoff(t) ==
    /\ req[t].state = "bound-to-pipeline"
    /\ req' = [req EXCEPT ![t] =
                  [Move(@, RunningState(crew.tasks[1].name)) EXCEPT
                      !.invoked = TRUE, !.pipeline = crew.id, !.task = 1,
                      !.descriptions = [i \in 1..Len(crew.tasks) |->
                          Interpolate(crew.tasks[i].description, req[t].inputs)]]]
    /\ UNCHANGED <<environment, startup>>

Running(r) == r.state \in {"extract-running", "analyze-running", "summarize-running"}

\* Process.sequential: the running task completes; the next task of crew.tasks
\* starts, or, after the last, kickoff returns and result.html is rendered
TaskDone(t) ==
    /\ Running(req[t])
    /\ LET r == req[t]
           done == Append(r.outputs, crew.tasks[r.task].name)
       IN req' = [req EXCEPT ![t] =
              IF r.task < Len(crew.tasks)
              THEN [Move(r, RunningState(crew.tasks[r.task + 1].name)) EXCEPT
                       !.task = r.task + 1, !.outputs = done]
              ELSE [Move(r, "rendered") EXCEPT
                       !.outputs = done, !.status = 200,
                       !.body = [template |-> "result.html", query |-> r.query.val,
                                 result |-> crew.tasks[r.task].name]]]
    /\ UNCHANGED <<environment, startup>>

\* an exception inside kickoff is not caught by process(): the request fails
TaskRaise(t) ==
    /\ Running(req[t])
    /\ req' = [req EXCEPT ![t] = [Move(@, "failed") EXCEPT !.status = 500]]
    /\ UNCHANGED <<environment, startup>>

\* the response is sent; the thread is free for the next request
Respond(t) ==
    /\ req[t].state \in {"index-rendered", "client-error", "rendered", "failed"}
    /\ req' = [req EXCEPT ![t] = Idle]
    /\ UNCHANGED <<environment, startup>>

----------------------------------------------------------------------------
(* Specifications *)

InitStartup ==
    /\ pc = "env"
    /\ exit_reason = None
    /\ llm = None
    /\ columns = <<>>
    /\ db = None
    /\ crew_config = None
    /\ agents = <<>>
    /\ crew = None
    /\ crew_builds = 0
    /\ req = [t \in Threads |-> Idle]

EnvKeys == {Absent, Str(""), Str("gsk_key")}

\* " a (a/a) ": a header with spaces, parentheses and a slash
SampleHeader == <<" ", "a", " ", "(", "a", "/", "a", ")", " ">>

SampleCsv == [kind |-> "csv", header |-> <<SampleHeader, <<"a">> >>]

SampleBackstory ==
    <<[indent |-> 4, text |-> "You are an expert."], [indent |-> 0, text |-> ""],
      [indent |-> 6, text |-> "You write SQL."]>>

EmptyText == <<[indent |-> 0, text |-> ""]>>

Entry(name, role, goal, backstory, tools, allow_delegation, verbose) ==
    [name |-> name, role |-> role, goal |-> goal, backstory |-> backstory,
     tools |-> tools, allow_delegation |-> allow_delegation, verbose |-> verbose]

GoodEntry(name) ==
    Entry(Str(name), Str("role"), Str("goal"), Str(SampleBackstory),
          List(<<"list_tables", "execute_sql">>), Absent, Absent)

\* the entries of config.yaml explored with the server
ServerEntries ==
    {GoodEntry(n) : n \in {"sql_dev", "data_analyst", "report_writer", "intern"}}
    \cup {[GoodEntry("sql_dev") EXCEPT !.role = Absent]}

ServerConfigs ==
    {[kind |-> "absent"], [kind |-> "empty"], [kind |-> "mapping", agents |-> Absent]}
    \cup {[kind |-> "mapping", agents |-> List(es)] : es \in SeqsBetween(ServerEntries, 0, MaxAgents)}

Init ==
    /\ env_key \in EnvKeys
    /\ csv_file \in {[kind |-> "absent"], [kind |-> "unreadable"], SampleCsv}
    /\ config_file \in ServerConfigs
    /\ InitStartup

Next ==
    \/ LoadEnv
    \/ InitLLM
    \/ DatabaseSetup
    \/ LoadConfig
    \/ CreateAgents
    \/ CreateTasks
    \/ AppRun
    \/ \E t \in Threads : Index(t)
    \/ \E t \in Threads : \E form \in Forms : Receive(t, form)
    \/ \E t \in Threads : ReadQuery(t)
    \/ \E t \in Threads : Kickoff(t)
    \/ \E t \in Threads : TaskDone(t)
    \/ \E t \in Threads : TaskRaise(t)
    \/ \E t \in Threads : Respond(t)

Spec == Init /\ [][Next]_vars

\* the dataset loader alone, over every header label of up to MaxLen characters
HeaderChars == {" ", "\t", "(", ")", "/", "_", "a"}

GoodConfig ==
    [kind |-> "mapping",
     agents |-> List(<<GoodEntry("sql_dev"), GoodEntry("data_analyst"),
                       GoodEntry("report_writer")>>)]

InitNorm ==
    /\ env_key = Str("gsk_key")
    /\ csv_file \in {[kind |-> "csv", header |-> <<h>>] : h \in SeqsBetween(HeaderChars, 0, MaxLen)}
    /\ config_file = GoodConfig
    /\ InitStartup

NextNorm ==
    \/ LoadEnv
    \/ InitLLM
    \/ DatabaseSetup

SpecNorm == InitNorm /\ [][NextNorm]_vars

\* create_crew for a config.yaml of one agent entry, over the entry's fields
TextValues == {Absent, Null, Str(""), Str("text")}

ToolNames == DOMAIN tool_mapping \cup {"web_search"}

Flags == {Absent, Bool(TRUE), Bool(FALSE)}

ConfigEntries ==
    {Entry(n, r, g, b, Absent, Absent, Absent) :
        n \in {Absent, Null, Str(""), Str("sql_dev")}, r \in TextValues, g \in TextValues,
        b \in {Absent, Null, Str(EmptyText), Str(SampleBackstory)}}
    \cup
    {Entry(Str("sql_dev"), Str("role"), Str("goal"), Str(SampleBackstory), tl, d, v) :
        tl \in {Absent} \cup {List(ns) : ns \in SeqsBetween(ToolNames, 0, MaxTools)},
        d \in Flags, v \in Flags}

InitConfig ==
    /\ env_key = Str("gsk_key")
    /\ csv_file = SampleCsv
    /\ config_file \in {[kind |-> "mapping", agents |-> List(<<e>>)] : e \in ConfigEntries}
    /\ InitStartup

NextConfig ==
    \/ LoadEnv
    \/ InitLLM
    \/ DatabaseSetup
    \/ LoadConfig
    \/ CreateAgents
    \/ CreateTasks

SpecConfig == InitConfig /\ [][NextConfig]_vars

----------------------------------------------------------------------------
(* Properties *)

Range(seq) == {seq[i] : i \in 1..Len(seq)}

IsPrefix(a, b) == Len(a) <= Len(b) /\ a = SubSeq(b, 1, Len(a))

Terminated == pc = "terminated"

AllIdle == \A t \in Threads : req[t] = Idle

\* C1: a POST /process whose form has no query field is answered 400 straight
\* from received, and crew.kickoff is never invoked for it
C1_NoQueryIs400 ==
    \A t \in Threads :
        LET r == req[t]
        IN (r.route = "/process" /\ r.form.query.kind = "absent" /\ r.state # "received")
           => /\ r.state = "client-error"
              /\ r.status = 400
              /\ ~r.invoked
              /\ r.pipeline = 0
              /\ r.history = <<"received", "client-error">>

C1_Witness ==
    \E t \in Threads : req[t].form.query.kind = "absent" /\ req[t].state = "client-error"

PipelineOrder ==
    <<"received", "bound-to-pipeline", "extract-running", "analyze-running",
      "summarize-running">>

CarriesQuery(r) == r.route = "/process" /\ ~Falsy(form_get(r.form, "query"))

\* C2 as stated: a request with a query passes through all five states in
\* order and only then ends, in rendered or in failed
C2_AllFiveThenEnd ==
    \A t \in Threads :
        CarriesQuery(req[t])
        => \/ IsPrefix(req[t].history, PipelineOrder)
           \/ req[t].history = PipelineOrder \o <<"rendered">>
           \/ req[t].history = PipelineOrder \o <<"failed">>

\* the upstream tasks of the running task have all completed
ContextDone(r) ==
    Running(r) => Range(crew.tasks[r.task].context) \subseteq Range(r.outputs)

\* C2, amended: the states are entered in the order received, bound-to-pipeline,
\* extract-running, analyze-running, summarize-running with none skipped or
\* revisited; a task starts only after its upstream task completed; rendered
\* follows summarize-running only; failed follows any of the three running
\* states; a started pipeline is left only through rendered or failed
C2_SequentialOrder ==
    /\ [](\A t \in Threads :
            /\ ContextDone(req[t])
            /\ CarriesQuery(req[t])
               => \/ IsPrefix(req[t].history, PipelineOrder)
                  \/ req[t].history = PipelineOrder \o <<"rendered">>
                  \/ \E k \in 3..Len(PipelineOrder) :
                        req[t].history = SubSeq(PipelineOrder, 1, k) \o <<"failed">>)
    /\ [][\A t \in Threads :
            (req[t].invoked /\ req'[t] # req[t])
            => \/ req'[t].history = Append(req[t].history, req'[t].state)
               \/ req[t].state \in {"rendered", "failed"} /\ req'[t] = Idle]_vars

C2_Witness ==
    \E t \in Threads : req[t].history = PipelineOrder \o <<"rendered">>

MissingRequiredField ==
    /\ config_file.kind = "mapping"
    /\ config_file.agents.kind = "list"
    /\ \E i \in 1..Len(config_file.agents.val) :
          \E f \in RequiredText : config_file.agents.val[i][f].kind = "absent"

StartupFatal ==
    \/ env_key.kind = "absent"
    \/ csv_file.kind = "absent"
    \/ config_file.kind = "absent"
    \/ MissingRequiredField

\* C3: with the credential unset, the data file absent, the configuration file
\* absent or an agent entry missing a required field, startup ends in
\* termination: no crew is built, the server never binds, no route serves
C3_FatalStartup ==
    StartupFatal
    => /\ pc \in {"env", "llm", "db", "config", "terminated"}
       /\ crew = None
       /\ crew_builds = 0
       /\ AllIdle

C3_Witness ==
    /\ Terminated
    /\ exit_reason.error = "exit: config invalid"
    /\ MissingRequiredField
    /\ env_key.kind = "str"
    /\ csv_file.kind = "csv"

\* the declared tool names of an entry of config.yaml
DeclaredTools(e) == IF e.tools.kind = "absent" THEN <<>> ELSE e.tools.val

InMapping(n) == n \in DOMAIN tool_mapping

\* the entries of config.yaml whose agent is the one the dict keeps under its name
Kept(i) ==
    \A j \in (i + 1)..Len(config_file.agents.val) :
        config_file.agents.val[j].name # config_file.agents.val[i].name

AgentsBuilt == pc \in {"tasks", "run", "serving"} \/ (Terminated /\ exit_reason.error = "KeyError")

ConfigAccepted == ValidCrew(config_file) /\ env_key.kind = "str" /\ ~Falsy(env_key) /\ csv_file.kind = "csv"

LacksTaskAgent ==
    \E k \in 1..Len(TaskAgents) :
        \A i \in 1..Len(config_file.agents.val) :
            config_file.agents.val[i].name.val # TaskAgents[k]

\* C5: a valid configuration without an agent named sql_dev, data_analyst or
\* report_writer makes create_crew raise KeyError while the tasks are built:
\* no crew exists and the server never binds
C5_MissingAgentKeyError ==
    (ConfigAccepted /\ LacksTaskAgent)
    => /\ pc \notin {"run", "serving"}
       /\ crew = None
       /\ crew_builds = 0
       /\ AllIdle
       /\ (Terminated => exit_reason.error = "KeyError"
                         /\ ~DictHas(agents, exit_reason.key)
                         /\ exit_reason.key \in Range(TaskAgents))

C5_Witness ==
    /\ Terminated
    /\ exit_reason.error = "KeyError"
    /\ exit_reason.key = "report_writer"
    /\ Len(agents) = 2

ForbiddenChars == {" ", "(", ")", "/"}

Loaded == pc = "config"

\* C6 as stated: every normalized label is free of space, parenthesis and
\* slash, and normalizing it again changes nothing
C6_Idempotent ==
    Loaded
    => \A i \in 1..Len(columns) :
          /\ Range(columns[i]) \cap ForbiddenChars = {}
          /\ NormalizeColumn(columns[i]) = columns[i]

\* C6, amended: every normalized label is free of space, parenthesis and slash;
\* normalizing it again changes nothing exactly when it neither starts nor ends
\* with whitespace, which is so whenever the header's only whitespace is spaces
C6_IdempotentOnSpaces ==
    Loaded
    => \A i \in 1..Len(columns) :
          LET c == columns[i]
              edge == c # <<>> /\ (c[1] \in Whitespace \/ c[Len(c)] \in Whitespace)
          IN /\ Range(c) \cap ForbiddenChars = {}
             /\ (NormalizeColumn(c) = c) <=> ~edge
             /\ Range(csv_file.header[i]) \cap Whitespace \subseteq {" "} => ~edge

C6_Witness ==
    /\ Loaded
    /\ csv_file.header[1] = <<" ", "(", "/">>
    /\ columns[1] = <<"_">>

\* C7 as stated: the question is in the description of each of the three tasks
C7_QueryInAllThree ==
    \A t \in Threads :
        req[t].invoked
        => \A i \in 1..Len(crew.tasks) :
              /\ Placeholder \in Range(crew.tasks[i].description)
              /\ req[t].query.val \in Range(req[t].descriptions[i])

\* C7, amended: the question is passed once for all the tasks and is in the
\* descriptions of extract_data and analyze_data, whose templates hold the
\* placeholder; write_report's template holds none and its description is the
\* same for every question
C7_QueryInExtractAndAnalyze ==
    \A t \in Threads :
        req[t].invoked
        => /\ req[t].inputs = [query |-> req[t].form.query.val]
           /\ Len(req[t].descriptions) = Len(crew.tasks)
           /\ \A i \in 1..Len(crew.tasks) :
                 IF crew.tasks[i].name \in {"extract_data", "analyze_data"}
                 THEN /\ Placeholder \in Range(crew.tasks[i].description)
                      /\ req[t].query.val \in Range(req[t].descriptions[i])
                      /\ Placeholder \notin Range(req[t].descriptions[i])
                 ELSE /\ Placeholder \notin Range(crew.tasks[i].description)
                      /\ req[t].descriptions[i] = crew.tasks[i].description
                      /\ req[t].query.val \notin Range(req[t].descriptions[i])

C7_Witness ==
    \E t \in Threads : req[t].state = "summarize-running" /\ req[t].query.val = "total revenue?"

FlagOr(v, default) == IF v.kind = "absent" THEN default ELSE v.val

\* C8: every agent carries its entry's allow_delegation (default False) and its
\* entry's verbose (default True)
C8_FlagsCarried ==
    AgentsBuilt
    => \A i \in 1..Len(config_file.agents.val) :
          LET e == config_file.agents.val[i]
          IN Kept(i)
             => /\ DictGet(agents, e.name.val).allow_delegation = FlagOr(e.allow_delegation, FALSE)
                /\ DictGet(agents, e.name.val).verbose = FlagOr(e.verbose, TRUE)

Validated == crew_config # None

PastLoadConfig == pc \notin {"env", "llm", "db", "config"}

\* C9 as stated: an entry is accepted only with name, role, goal and backstory
\* all present and non-empty text
C9_NonEmptyText ==
    Validated
    => \A i \in 1..Len(config_file.agents.val) :
          \A f \in RequiredText :
              LET v == config_file.agents.val[i][f]
              IN v.kind = "str" /\ ~IsEmptyText(f, v)

DefaultsWellFormed(e) ==
    /\ e.tools.kind \in {"absent", "list"}
    /\ e.allow_delegation.kind \in {"absent", "bool"}
    /\ e.verbose.kind \in {"absent", "bool"}

\* C9, amended: an entry is accepted only with name, role, goal and backstory
\* all present and text; an entry in which one of them is missing or null fails
\* validation and ends startup; the empty string is text and is accepted
C9_PresentText ==
    LET entries == config_file.agents.val
        text(i) == \A f \in RequiredText : entries[i][f].kind = "str"
    IN /\ Validated => \A i \in 1..Len(entries) : text(i)
       /\ (\E i \in 1..Len(entries) : ~text(i))
          => /\ ~Validated
             /\ pc \in {"env", "llm", "db", "config", "terminated"}
             /\ (Terminated => exit_reason.error = "exit: config invalid")
       /\ (PastLoadConfig /\ \A i \in 1..Len(entries) : text(i) /\ DefaultsWellFormed(entries[i]))
          => Validated /\ Len(crew_config.agents) = Len(entries)

C9_Witness ==
    /\ Terminated
    /\ exit_reason.error = "exit: config invalid"
    /\ config_file.agents.val[1].backstory.kind = "absent"
    /\ \A f \in RequiredText \ {"backstory"} : config_file.agents.val[1][f].kind = "str"

Inside(r) == r.invoked /\ r.state \notin {"rendered", "failed"}

\* C10: one Crew is built, at startup, and every request's kickoff is on it;
\* nothing keeps two requests from being inside kickoff at once
C10_OneSharedCrew ==
    /\ crew_builds <= 1
    /\ pc = "serving" => crew # None /\ crew.id = 1 /\ crew_builds = 1
    /\ \A t \in Threads : req[t].invoked => req[t].pipeline = crew.id

C10_Witness ==
    \E t1 \in Threads : \E t2 \in Threads \ {t1} : Inside(req[t1]) /\ Inside(req[t2])

====
